---------------------------- MODULE Spec2Model ----------------------------
(***************************************************************************)
(* A model of the go-echoprint fingerprint decoding and matching engine:   *)
(* the hex layer of the codec (decode), the window clamper (NewClamped),   *)
(* the quality classifier (Quality), the scorer (calculateConfidence,      *)
(* getCodeTimeMap), the match engine (Match, determineBestMatch,           *)
(* clampMatchConfidence) and the batch orchestrator (MatchAll).            *)
(***************************************************************************)
EXTENDS Integers, Sequences, FiniteSets, TLC

VARIABLES
    intBits,    \* width of Go's int in the build that runs: 32 or 64
    \* ---- codec (decode) ----
    cpc,        \* position of the codec run: "plain", "encoded", "decoded"
    plain,      \* [Times, Codes]: the sequences the payload was made from
    inflated,   \* the inflated hex string handed to decode (a sequence of characters)
    damage,     \* how inflated departs from the rendering of plain: "group", "garble", "tail"
    decoded,    \* what decode returned: [status, codes, times]
    \* ---- scorer (calculateConfidence) ----
    spc,        \* "build", "scored"
    qfp,        \* the query fingerprint
    cfp,        \* the candidate fingerprint
    timeDiffs,  \* the histogram calculateConfidence built: bucket -> count
    conf,       \* the float32 calculateConfidence returned
    \* ---- match engine (Match, NewClamped) ----
    mpc,        \* "build", "returned", "panicked"
    mfp,        \* the fingerprint handed to Match
    dbOut,      \* what db.query returned: [err, rows]
    mret,       \* how Match ended: [status, matches, ranked, used]
    \* ---- batch orchestrator (MatchAll) ----
    bpc,        \* MatchAll: "spawn", "wait", "returned", "crashed"
    codegenList,\* the input list
    allMatches, \* the pre-sized slot array
    wg,         \* the WaitGroup counter
    tpc,        \* per task: "unspawned", "new", "decoded", "written", "done"
    tfp,        \* per task: the fingerprint NewFingerprint returned
    tdb,        \* per task: what db.query returned to its Match
    returned    \* the list MatchAll returned

codecVars == <<cpc, plain, inflated, damage, decoded>>
scoreVars == <<spc, qfp, cfp, timeDiffs, conf>>
matchVars == <<mpc, mfp, dbOut, mret>>
batchVars == <<bpc, codegenList, allMatches, wg, tpc, tfp, tdb, returned>>
vars == <<intBits, codecVars, scoreVars, matchVars, batchVars>>

\* what a run of one component leaves alone
notCodec == <<intBits, scoreVars, matchVars, batchVars>>
notScore == <<intBits, codecVars, matchVars, batchVars>>
notMatch == <<intBits, codecVars, scoreVars, batchVars>>
notBatch == <<intBits, codecVars, scoreVars, matchVars>>

-----------------------------------------------------------------------------
(* Bounds of the model *)

\* longest Codes/Times pair list built for the codec and the scorer
MaxLen == 3
\* most characters appended to a payload after its last whole 5-digit group
MaxTail == 1

-----------------------------------------------------------------------------
(* Sequence helpers *)

Min(a, b) == IF a < b THEN a ELSE b

Prefix(s, n) == SubSeq(s, 1, n)

RECURSIVE Pow2(_)
Pow2(k) == IF k = 0 THEN 1 ELSE 2 * Pow2(k - 1)

-----------------------------------------------------------------------------
(* Codec: the hex layer *)

HexDigits == <<"0", "1", "2", "3", "4", "5", "6", "7",
               "8", "9", "a", "b", "c", "d", "e", "f">>

UpperDigits == <<"0", "1", "2", "3", "4", "5", "6", "7",
                 "8", "9", "A", "B", "C", "D", "E", "F">>

\* strconv's digit value of one character in base 16, or -1
HexVal(c) ==
    IF \E d \in 1..16 : HexDigits[d] = c
    THEN (CHOOSE d \in 1..16 : HexDigits[d] = c) - 1
    ELSE IF \E d \in 1..16 : UpperDigits[d] = c
    THEN (CHOOSE d \in 1..16 : UpperDigits[d] = c) - 1
    ELSE -1

RECURSIVE ParseDigits(_, _)
ParseDigits(s, acc) ==
    IF s = <<>> THEN acc
    ELSE ParseDigits(Tail(s), acc * 16 + HexVal(Head(s)))

\* strconv.ParseUint(s, 16, 32): an empty string or a character that is no
\* hex digit is a syntax error; five digits never exceed 32 bits.
ParseUint(s) ==
    IF s = <<>> \/ \E k \in 1..Len(s) : HexVal(s[k]) < 0
    THEN [ok |-> FALSE, val |-> 0]
    ELSE [ok |-> TRUE, val |-> ParseDigits(s, 0)]

\* fp[offset:offset+5]
HexGroup(fp, i) == SubSeq(fp, i * 5 + 1, i * 5 + 5)

DecodeErr == [status |-> "err", codes |-> <<>>, times |-> <<>>]
DecodePanic == [status |-> "panic", codes |-> <<>>, times |-> <<>>]

\* the index at which decode stores the code parsed from group i
CodeIndexBug(i, length) == i
CodeIndex(i, length) == i - length

\* second loop of decode: for ; i < tupleCount; i++
RECURSIVE DecodeCodes(_, _, _, _, _, _)
DecodeCodes(fp, i, tupleCount, length, codes, times) ==
    IF i >= tupleCount
    THEN [status |-> "ok", codes |-> codes, times |-> times]
    ELSE LET conv == ParseUint(HexGroup(fp, i))
             at == CodeIndex(i, length)
         IN IF ~conv.ok THEN DecodeErr
            ELSE IF at < 0 \/ at >= Len(codes) THEN DecodePanic   \* index out of range
            ELSE DecodeCodes(fp, i + 1, tupleCount, length,
                             [codes EXCEPT ![at + 1] = conv.val], times)

\* first loop of decode: for ; i < length; i++
RECURSIVE DecodeTimes(_, _, _, _, _, _)
DecodeTimes(fp, i, tupleCount, length, codes, times) ==
    IF i >= length
    THEN DecodeCodes(fp, i, tupleCount, length, codes, times)
    ELSE LET conv == ParseUint(HexGroup(fp, i))
         IN IF ~conv.ok THEN DecodeErr
            ELSE DecodeTimes(fp, i + 1, tupleCount, length, codes,
                             [times EXCEPT ![i + 1] = conv.val])

\* make([]uint32, length) for codes
CodesLenBug(tupleCount, length) == tupleCount - length
CodesLen(tupleCount, length) == length

decode(fp) ==
    LET tupleCount == Len(fp) \div 5
        length == tupleCount \div 2
        codes == [k \in 1..CodesLen(tupleCount, length) |-> 0]
        times == [k \in 1..length |-> 0]
    IN DecodeTimes(fp, 0, tupleCount, length, codes, times)

\* The 5-hex-digit zero-padded rendering of a value in [0, 0xFFFFF], the
\* inverse of the hex layer that the external encoder applies.
Hex5(v) ==
    [k \in 1..5 |-> HexDigits[((v \div Pow2(4 * (5 - k))) % 16) + 1]]

RECURSIVE HexAll(_)
HexAll(vs) == IF vs = <<>> THEN <<>> ELSE Hex5(Head(vs)) \o HexAll(Tail(vs))

Encode(p) == HexAll(p.Times) \o HexAll(p.Codes)

\* values the encoded sequences are drawn from (0x00abc and 0xfffff)
CodecVals == {2748, 1048575}
\* characters a payload is damaged with: no hex digit, and an upper-case digit
GarbleChars == {"g", "A"}
\* characters appended after the last whole group
TailChars == {"0", "g"}

NoDecode == [status |-> "none", codes |-> <<>>, times |-> <<>>]

CodecInit ==
    /\ cpc = "plain"
    /\ plain = [Times |-> <<>>, Codes |-> <<>>]
    /\ inflated = <<>>
    /\ damage = {}
    /\ decoded = NoDecode

\* the encoder collects one more (time, code) pair
AppendPair ==
    /\ cpc = "plain"
    /\ Len(plain.Times) < MaxLen
    /\ \E t \in CodecVals, c \in CodecVals :
          plain' = [Times |-> Append(plain.Times, t),
                    Codes |-> Append(plain.Codes, c)]
    /\ UNCHANGED <<cpc, inflated, damage, decoded>>
    /\ UNCHANGED notCodec

\* the encoder renders the pairs: all times, then all codes
EncodePlain ==
    /\ cpc = "plain"
    /\ cpc' = "encoded"
    /\ inflated' = Encode(plain)
    /\ UNCHANGED <<plain, damage, decoded>>
    /\ UNCHANGED notCodec

\* a payload that does not come from the encoder: one more whole group
AppendGroup ==
    /\ cpc = "encoded"
    /\ damage = {}
    /\ \E v \in CodecVals : inflated' = inflated \o Hex5(v)
    /\ damage' = {"group"}
    /\ UNCHANGED <<cpc, plain, decoded>>
    /\ UNCHANGED notCodec

\* a payload that does not come from the encoder: the first character of
\* one whole group replaced
Garble ==
    /\ cpc = "encoded"
    /\ damage \subseteq {"group"}
    /\ \E i \in 0..(Len(inflated) \div 5 - 1), c \in GarbleChars :
          inflated' = [inflated EXCEPT ![i * 5 + 1] = c]
    /\ damage' = damage \cup {"garble"}
    /\ UNCHANGED <<cpc, plain, decoded>>
    /\ UNCHANGED notCodec

\* a payload that does not come from the encoder: a trailing character
AppendChar ==
    /\ cpc = "encoded"
    /\ Len(inflated) % 5 < MaxTail
    /\ \E c \in TailChars : inflated' = Append(inflated, c)
    /\ damage' = damage \cup {"tail"}
    /\ UNCHANGED <<cpc, plain, decoded>>
    /\ UNCHANGED notCodec

\* NewFingerprint's call of decode on the inflated string
Decode ==
    /\ cpc = "encoded"
    /\ cpc' = "decoded"
    /\ decoded' = decode(inflated)
    /\ UNCHANGED <<plain, inflated, damage>>
    /\ UNCHANGED notCodec

NextCodec == AppendPair \/ EncodePlain \/ AppendGroup \/ AppendChar \/ Garble \/ Decode

-----------------------------------------------------------------------------
(* float32 arithmetic of the scorer.  A confidence is held in units of      *)
(* 2^-20, which is exact for every float32 in [8, 2048) and for 0; NaN is   *)
(* its own value.                                                            *)

NaN == -1

Unit == 1048576

\* the integer nearest a / b, ties to even
RoundHalfEven(a, b) ==
    LET q == a \div b
        r == a % b
    IN IF 2 * r < b THEN q
       ELSE IF 2 * r > b THEN q + 1
       ELSE IF q % 2 = 0 THEN q ELSE q + 1

\* the powers of two a float32 of the model is scaled by
PowersOf2 == [k \in 0..30 |-> Pow2(k)]

\* the least k >= k0 with x * 2^(k - k0) >= 2^23 * n
RECURSIVE NormShift(_, _, _)
NormShift(x, n, k) ==
    IF x >= PowersOf2[23] * n THEN k ELSE NormShift(2 * x, n, k + 1)

\* float32(s) / float32(n) for s, n > 0: the 24-bit significand m and the
\* shift k of the quotient m / 2^k
F32Quot(s, n) ==
    LET k == NormShift(s, n, 0)
    IN [m |-> RoundHalfEven(s * PowersOf2[k], n), k |-> k]

\* q * 100.00 rounded to float32, in units of 2^-20: the product of a 24-bit
\* significand and 100 has 30 or 31 bits, of which float32 keeps 24
F32Times100(q) ==
    LET p == q.m * 100
        j == IF p < PowersOf2[30] THEN 6 ELSE 7
        m2 == RoundHalfEven(p, PowersOf2[j])
        e == j + 20 - q.k
    IN IF e >= 0 THEN m2 * PowersOf2[e] ELSE m2 \div PowersOf2[-e]

\* float32(score) / float32(n) * 100.00
F32Percent(score, n) ==
    IF n = 0 THEN NaN          \* 0 / 0: the loops never ran, so score = 0
    ELSE IF score = 0 THEN 0
    ELSE F32Times100(F32Quot(score, n))

\* float32 comparison: false whenever an operand is NaN
F32Ge(a, b) == a # NaN /\ b # NaN /\ a >= b
F32Gt(a, b) == a # NaN /\ b # NaN /\ a > b

-----------------------------------------------------------------------------
(* Match Scorer *)

histogramMatchSlop == 2

\* time / slop * slop on uint32
Discretize(time, slop) == (time \div slop) * slop

\* A Go integer wider than the checker's own is held as two 16-bit limbs
\* <<high, low>>.
Limbs(v) == <<v \div 65536, v % 65536>>

\* the uint32 difference a - b, wrapping modulo 2^32
U32Sub(a, b) == <<((a - b) \div 65536) % 65536, (a - b) % 65536>>

\* dist := int(fpTime - matchTime); if dist < 0 { dist = -dist }
\* With a 64-bit int the conversion of a uint32 is never negative; with a
\* 32-bit int a difference of 2^31 or more converts to a negative number.
DistBug(fpTime, matchTime, bits) ==
    Limbs(IF fpTime >= matchTime THEN fpTime - matchTime ELSE 0)
Dist(fpTime, matchTime, bits) ==
    LET u == U32Sub(fpTime, matchTime)
    IN IF bits = 32 /\ u[1] >= 32768
       THEN Limbs((65536 - u[1]) * 65536 - u[2])
       ELSE u

\* getCodeTimeMap: the pairs (code, discretized time) of the first
\* min(limit, len) entries, as the set of indexes that feed each code's list
MapLimitBug(fp, limit) == IF Len(fp.Codes) < limit THEN Len(fp.Codes) ELSE limit - 1
MapLimit(fp, limit) == IF Len(fp.Codes) < limit THEN Len(fp.Codes) ELSE limit

getCodeTimeMap(fp, limit, slop) ==
    LET lim == MapLimit(fp, limit)
        codes == {fp.Codes[j] : j \in 1..lim}
    IN [c \in codes |->
          LET idx == {j \in 1..lim : fp.Codes[j] = c}
          IN [j \in idx |-> Discretize(fp.Times[j], slop)]]

\* the histogram timeDiffs after both loops: bucket -> count
TimeDiffs(fp, matchFp, slop, bits) ==
    LET matchCodeMap == getCodeTimeMap(matchFp, Len(fp.Codes), slop)
        hits == {<<i, j>> \in (1..Len(fp.Codes)) \X (1..Len(matchFp.Codes)) :
                    /\ fp.Codes[i] \in DOMAIN matchCodeMap
                    /\ j \in DOMAIN matchCodeMap[fp.Codes[i]]}
        key(h) == Dist(Discretize(fp.Times[h[1]], slop),
                       matchCodeMap[fp.Codes[h[1]]][h[2]], bits)
        keys == {key(h) : h \in hits}
    IN [k \in keys |-> Cardinality({h \in hits : key(h) = k})]

\* the sum of the two largest bucket counts
TopTwoBug(hist) ==
    IF DOMAIN hist = {} THEN 0
    ELSE LET k1 == CHOOSE k \in DOMAIN hist : \A o \in DOMAIN hist : hist[k] <= hist[o]
         IN hist[k1]
TopTwo(hist) ==
    IF DOMAIN hist = {} THEN 0
    ELSE LET k1 == CHOOSE k \in DOMAIN hist : \A o \in DOMAIN hist : hist[k] >= hist[o]
             rest == DOMAIN hist \ {k1}
         IN IF rest = {} THEN hist[k1]
            ELSE LET k2 == CHOOSE k \in rest : \A o \in rest : hist[k] >= hist[o]
                 IN hist[k1] + hist[k2]

calculateConfidence(fp, matchFp, slop, bits) ==
    F32Percent(TopTwo(TimeDiffs(fp, matchFp, slop, bits)), Len(fp.Codes))

\* fingerprints of the scorer's runs
ScoreCodes == {1, 2}
ScoreTimes == {0, 3}
\* longest candidate built independently of the query
MaxCand == 2

Fp(codes, times, bitrate, track, clamped) ==
    [Codes |-> codes, Times |-> times, Bitrate |-> bitrate,
     TrackID |-> track, clamped |-> clamped]

EmptyFp == Fp(<<>>, <<>>, 0, 0, FALSE)

AppendTo(fp, code, time) ==
    [fp EXCEPT !.Codes = Append(@, code), !.Times = Append(@, time)]

ScoreInit ==
    /\ spc = "build"
    /\ qfp = EmptyFp
    /\ cfp = EmptyFp
    /\ timeDiffs = <<>>
    /\ conf = 0

\* one more (code, time) pair of the query
QueryAppend ==
    /\ spc = "build"
    /\ Len(qfp.Codes) < MaxLen
    /\ cfp = EmptyFp
    /\ \E c \in ScoreCodes, t \in ScoreTimes : qfp' = AppendTo(qfp, c, t)
    /\ UNCHANGED <<spc, cfp, timeDiffs, conf>>
    /\ UNCHANGED notScore

\* one more (code, time) pair of the candidate
CandAppend ==
    /\ spc = "build"
    /\ Len(cfp.Codes) < MaxCand
    /\ \E c \in ScoreCodes, t \in ScoreTimes : cfp' = AppendTo(cfp, c, t)
    /\ UNCHANGED <<spc, qfp, timeDiffs, conf>>
    /\ UNCHANGED notScore

\* the candidate is the very fingerprint that is queried
CandSame ==
    /\ spc = "build"
    /\ cfp = EmptyFp
    /\ qfp # EmptyFp
    /\ cfp' = qfp
    /\ UNCHANGED <<spc, qfp, timeDiffs, conf>>
    /\ UNCHANGED notScore

\* calculateConfidence(fp, r.fp, uint32(histogramMatchSlop))
Score ==
    /\ spc = "build"
    /\ spc' = "scored"
    /\ timeDiffs' = TimeDiffs(qfp, cfp, histogramMatchSlop, intBits)
    /\ conf' = calculateConfidence(qfp, cfp, histogramMatchSlop, intBits)
    /\ UNCHANGED <<qfp, cfp>>
    /\ UNCHANGED notScore

NextScore == QueryAppend \/ CandAppend \/ CandSame \/ Score

-----------------------------------------------------------------------------
(* Window Clamper and Quality Classifier *)

fpSixtySecOffset == 2586
mediumQualityThreshold == 256
lowQualityThreshold == 128

\* clampDuration := fpSixtySecOffset*3 + fp.Times[0]  (uint32; the times of
\* the model are 20-bit values, as decode produces, so the sum cannot wrap)
ClampDurationBug(fp) == fpSixtySecOffset + fp.Times[1]
ClampDuration(fp) == fpSixtySecOffset * 3 + fp.Times[1]

\* the first index (from 0) whose time exceeds the boundary, or the length
ClampCut(fp) ==
    LET over == {i \in 1..Len(fp.Times) : fp.Times[i] > ClampDuration(fp)}
    IN IF over = {} THEN Len(fp.Times)
       ELSE (CHOOSE i \in over : \A o \in over : i <= o) - 1

\* NewClamped on a fingerprint with at least one time; fp.Times[0] of an
\* empty fingerprint is an index out of range
NewClampedPanics(fp) == Len(fp.Times) = 0

NewClamped(fp) ==
    [fp EXCEPT !.Codes = Prefix(@, ClampCut(fp)),
               !.Times = Prefix(@, ClampCut(fp)),
               !.clamped = TRUE]

Quality(fp) ==
    IF fp.Bitrate = 0 THEN "high"
    ELSE IF fp.Bitrate >= mediumQualityThreshold THEN "high"
    ELSE IF fp.Bitrate >= lowQualityThreshold THEN "medium"
    ELSE "low"

-----------------------------------------------------------------------------
(* Match Engine *)

maxConfidence == 100
minMatchConfidenceHighQuality == 70
minMatchConfidenceMediumQuality == 55
minMatchConfidenceLowQuality == 35
searchDepthHighQuality == 200
searchDepthMediumQuality == 350
searchDepthLowQuality == 500

\* the switch of Match on fp.Quality()
MinMatchConfidence(fp) ==
    CASE Quality(fp) = "high" -> minMatchConfidenceHighQuality * Unit
      [] Quality(fp) = "medium" -> minMatchConfidenceMediumQuality * Unit
      [] OTHER -> minMatchConfidenceLowQuality * Unit

NumRows(fp) ==
    CASE Quality(fp) = "high" -> searchDepthHighQuality
      [] Quality(fp) = "medium" -> searchDepthMediumQuality
      [] OTHER -> searchDepthLowQuality

newMatchResult(r, confidence) ==
    [Best |-> FALSE, TrackID |-> r.TrackID, Confidence |-> confidence, Error |-> ""]

newMatchGroupError(err) ==
    <<[Best |-> FALSE, TrackID |-> 0, Confidence |-> 0, Error |-> err]>>

\* if confidence >= minMatchConfidence { matches = append(...) }
KeepsBug(confidence, min) == TRUE
Keeps(confidence, min) == F32Ge(confidence, min)

\* the loop of Match over the store's rows, in their order
RECURSIVE Survivors(_, _, _)
Survivors(fp, rows, bits) ==
    IF rows = <<>> THEN <<>>
    ELSE LET confidence == calculateConfidence(fp, Head(rows), histogramMatchSlop, bits)
             rest == Survivors(fp, Tail(rows), bits)
         IN IF Keeps(confidence, MinMatchConfidence(fp))
            THEN <<newMatchResult(Head(rows), confidence)>> \o rest
            ELSE rest

\* sort.Sort(byConfidence(matches)): some arrangement of the same results with
\* no result before one of greater confidence (the sort is not stable)
Sorted(matches) ==
    LET n == Len(matches)
        perms == {p \in [1..n -> 1..n] : \A i, j \in 1..n : i # j => p[i] # p[j]}
    IN {[i \in 1..n |-> matches[p[i]]] : p \in
           {q \in perms : \A i \in 1..(n - 1) :
               ~F32Gt(matches[q[i + 1]].Confidence, matches[q[i]].Confidence)}}

\* matches[0].Confidence-matches[1].Confidence >= matches[0].Confidence*bestMatchDiff
\* (bestMatchDiff = 0.25; both sides are exact in float32 when it can hold)
MarginBug(top, second) == top - second > (top + 3) \div 4
Margin(top, second) == top - second >= (top + 3) \div 4

determineBestMatch(matches) ==
    IF Len(matches) = 1
    THEN [matches EXCEPT ![1].Best = TRUE]
    ELSE IF Margin(matches[1].Confidence, matches[2].Confidence)
         THEN [matches EXCEPT ![1].Best = TRUE]
         ELSE matches

clampMatchConfidence(matches) ==
    [i \in 1..Len(matches) |->
        IF matches[i].Confidence > maxConfidence * Unit
        THEN [matches[i] EXCEPT !.Confidence = maxConfidence * Unit]
        ELSE matches[i]]

\* Every way Match(fp) can end when db.query answers db = [err, rows].
\* ranked is the list as determineBestMatch left it, before the confidences
\* are capped; used is the fingerprint that was queried and scored.
Match(fp, db, bits) ==
    IF ~fp.clamped /\ NewClampedPanics(fp)
    THEN {[status |-> "panic", matches |-> <<>>, ranked |-> <<>>, used |-> fp]}
    ELSE LET used == IF fp.clamped THEN fp ELSE NewClamped(fp)
         IN IF db.err
            THEN {[status |-> "err", matches |-> <<>>, ranked |-> <<>>,
                   used |-> used]}
            ELSE LET kept == Survivors(used, db.rows, bits)
                 IN IF Len(kept) = 0
                    THEN {[status |-> "ok", matches |-> <<>>, ranked |-> <<>>,
                           used |-> used]}
                    ELSE {[status |-> "ok",
                           matches |-> clampMatchConfidence(determineBestMatch(s)),
                           ranked |-> determineBestMatch(s),
                           used |-> used] : s \in Sorted(kept)}

\* longest query handed to Match, and most rows the store answers with
MaxQuery == 2
MaxRows == 2

MatchCodes == {1, 2}
\* 0, and the two times around the boundary of a window that starts at 0
MatchTimes == {0, 3 * fpSixtySecOffset, 3 * fpSixtySecOffset + 1}
\* bitrates at and around the tier thresholds
Bitrates == {0, lowQualityThreshold - 1, lowQualityThreshold,
             mediumQualityThreshold - 1, mediumQualityThreshold}

\* the ingested fingerprints the store answers with
StoreFps == {Fp(<<2>>, <<0>>, 0, 1, FALSE),
             Fp(<<1, 1>>, <<0, 3 * fpSixtySecOffset>>, 0, 2, FALSE),
             Fp(<<1, 1>>, <<0, 0>>, 0, 3, FALSE)}

RECURSIVE SeqsUpTo(_, _)
SeqsUpTo(S, n) ==
    IF n = 0 THEN {<<>>}
    ELSE LET shorter == SeqsUpTo(S, n - 1)
         IN shorter \cup {Append(q, x) : q \in shorter, x \in S}

\* db.query(fp, 0, numRows, minDBScorePercent): an error, or at most numRows rows
DbAnswers(fp, most) ==
    {[err |-> TRUE, rows |-> <<>>]}
    \cup {[err |-> FALSE, rows |-> rs] : rs \in SeqsUpTo(StoreFps, Min(most, NumRows(fp)))}

NoDb == [err |-> FALSE, rows |-> <<>>]
NoRet == [status |-> "none", matches |-> <<>>, ranked |-> <<>>, used |-> EmptyFp]

MatchInit ==
    /\ mpc = "build"
    /\ \E b \in Bitrates : mfp = Fp(<<>>, <<>>, b, 0, FALSE)
    /\ dbOut = NoDb
    /\ mret = NoRet

\* one more (code, time) pair of the fingerprint to be matched
MatchAppend ==
    /\ mpc = "build"
    /\ ~mfp.clamped
    /\ Len(mfp.Codes) < MaxQuery
    /\ \E c \in MatchCodes, t \in MatchTimes : mfp' = AppendTo(mfp, c, t)
    /\ UNCHANGED <<mpc, dbOut, mret>>
    /\ UNCHANGED notMatch

\* the caller clamps the fingerprint itself before it calls Match
PreClamp ==
    /\ mpc = "build"
    /\ ~mfp.clamped
    /\ ~NewClampedPanics(mfp)
    /\ mfp' = NewClamped(mfp)
    /\ UNCHANGED <<mpc, dbOut, mret>>
    /\ UNCHANGED notMatch

\* Match(fp) runs to its end
MatchCall ==
    /\ mpc = "build"
    /\ \E db \in DbAnswers(mfp, MaxRows) : \E r \in Match(mfp, db, intBits) :
          /\ mret' = r
          /\ dbOut' = IF r.status = "panic" THEN NoDb ELSE db
          /\ mpc' = IF r.status = "panic" THEN "panicked" ELSE "returned"
    /\ UNCHANGED mfp
    /\ UNCHANGED notMatch

NextMatch == MatchAppend \/ PreClamp \/ MatchCall

-----------------------------------------------------------------------------
(* Batch Orchestrator *)

\* longest input list of MatchAll
MaxBatch == 3

\* inflate: base64 and zlib are taken by their outcome; a payload is
\* [kind, hex, Bitrate, TrackID] with kind "badbase64", "badzlib" or "ok"
inflate(data) ==
    IF data.kind = "ok" THEN [ok |-> TRUE, text |-> data.hex]
    ELSE [ok |-> FALSE, text |-> <<>>]

NewFingerprint(codegenFp) ==
    LET inflated_ == inflate(codegenFp)
    IN IF ~inflated_.ok THEN [status |-> "err", fp |-> EmptyFp]
       ELSE LET d == decode(inflated_.text)
            IN [status |-> d.status,
                fp |-> Fp(d.codes, d.times, codegenFp.Bitrate, codegenFp.TrackID, FALSE)]

Payload(kind, hex, bitrate) ==
    [kind |-> kind, hex |-> hex, Bitrate |-> bitrate, TrackID |-> 0]

\* a sound low-bitrate payload, one that is no base64, one with a damaged hex
\* group, and one that inflates to the empty string
Payloads ==
    {Payload("ok", Encode([Times |-> <<0, 0>>, Codes |-> <<1, 2>>]), lowQualityThreshold - 1),
     Payload("badbase64", <<>>, 0),
     Payload("ok", <<"g">> \o Tail(Encode([Times |-> <<0>>, Codes |-> <<1>>])), 0),
     Payload("ok", <<>>, 0)}

\* what the store answers to a task of the batch
BatchAnswers ==
    {[err |-> TRUE, rows |-> <<>>],
     [err |-> FALSE, rows |-> <<>>],
     [err |-> FALSE, rows |-> <<Fp(<<1>>, <<0>>, 0, 1, FALSE),
                                Fp(<<1, 2>>, <<0, 0>>, 0, 2, FALSE)>>]}

Tasks == 1..Len(codegenList)

\* the slot a task writes: go func(group int, ...) {...}(i, codegenFp)
groupBug(i, n) == n
group(i, n) == i

\* wg.Wait() lets MatchAll go on
WaitOverBug(counter) == TRUE
WaitOver(counter) == counter = 0

BatchInit ==
    /\ bpc = "spawn"
    /\ codegenList \in SeqsUpTo(Payloads, MaxBatch)
    /\ allMatches = [i \in Tasks |-> <<>>]
    /\ wg = 0
    /\ tpc = [i \in Tasks |-> "unspawned"]
    /\ tfp = [i \in Tasks |-> EmptyFp]
    /\ tdb = [i \in Tasks |-> NoDb]
    /\ returned = <<>>

\* one round of the loop: wg.Add(1); go func(...)
Spawn ==
    /\ bpc = "spawn"
    /\ \E i \in Tasks :
          /\ tpc[i] = "unspawned"
          /\ \A j \in 1..(i - 1) : tpc[j] # "unspawned"
          /\ tpc' = [tpc EXCEPT ![i] = "new"]
    /\ wg' = wg + 1
    /\ UNCHANGED <<bpc, codegenList, allMatches, tfp, tdb, returned>>
    /\ UNCHANGED notBatch

\* the loop is over
SpawnDone ==
    /\ bpc = "spawn"
    /\ \A i \in Tasks : tpc[i] # "unspawned"
    /\ bpc' = "wait"
    /\ UNCHANGED <<codegenList, allMatches, wg, tpc, tfp, tdb, returned>>
    /\ UNCHANGED notBatch

\* a task's NewFingerprint, and on an error its store of the error result
TaskDecode(i) ==
    /\ bpc \in {"spawn", "wait"}
    /\ tpc[i] = "new"
    /\ LET r == NewFingerprint(codegenList[i])
       IN CASE r.status = "panic" ->
                 /\ bpc' = "crashed"
                 /\ UNCHANGED <<allMatches, tpc, tfp>>
            [] r.status = "err" ->
                 /\ allMatches' = [allMatches EXCEPT
                        ![group(i, Len(codegenList))] = newMatchGroupError("decode")]
                 /\ tpc' = [tpc EXCEPT ![i] = "written"]
                 /\ UNCHANGED <<bpc, tfp>>
            [] OTHER ->
                 /\ tfp' = [tfp EXCEPT ![i] = r.fp]
                 /\ tpc' = [tpc EXCEPT ![i] = "decoded"]
                 /\ UNCHANGED <<bpc, allMatches>>
    /\ UNCHANGED <<codegenList, wg, tdb, returned>>
    /\ UNCHANGED notBatch

\* a task's Match, and its store of the error result or of the matches
TaskMatch(i) ==
    /\ bpc \in {"spawn", "wait"}
    /\ tpc[i] = "decoded"
    /\ \E db \in BatchAnswers : \E r \in Match(tfp[i], db, intBits) :
          CASE r.status = "panic" ->
                 /\ bpc' = "crashed"
                 /\ UNCHANGED <<allMatches, tpc, tdb>>
            [] r.status = "err" ->
                 /\ allMatches' = [allMatches EXCEPT
                        ![group(i, Len(codegenList))] = newMatchGroupError("store")]
                 /\ tpc' = [tpc EXCEPT ![i] = "written"]
                 /\ tdb' = [tdb EXCEPT ![i] = db]
                 /\ UNCHANGED bpc
            [] OTHER ->
                 /\ allMatches' = [allMatches EXCEPT
                        ![group(i, Len(codegenList))] = r.matches]
                 /\ tpc' = [tpc EXCEPT ![i] = "written"]
                 /\ tdb' = [tdb EXCEPT ![i] = db]
                 /\ UNCHANGED bpc
    /\ UNCHANGED <<codegenList, wg, tfp, returned>>
    /\ UNCHANGED notBatch

\* a task's deferred wg.Done()
TaskDone(i) ==
    /\ bpc \in {"spawn", "wait"}
    /\ tpc[i] = "written"
    /\ tpc' = [tpc EXCEPT ![i] = "done"]
    /\ wg' = wg - 1
    /\ UNCHANGED <<bpc, codegenList, allMatches, tfp, tdb, returned>>
    /\ UNCHANGED notBatch

\* wg.Wait() returns and MatchAll returns allMatches
Return ==
    /\ bpc = "wait"
    /\ WaitOver(wg)
    /\ bpc' = "returned"
    /\ returned' = allMatches
    /\ UNCHANGED <<codegenList, allMatches, wg, tpc, tfp, tdb>>
    /\ UNCHANGED notBatch

Next ==
    \/ Spawn
    \/ SpawnDone
    \/ \E i \in Tasks : TaskDecode(i)
    \/ \E i \in Tasks : TaskMatch(i)
    \/ \E i \in Tasks : TaskDone(i)
    \/ Return

-----------------------------------------------------------------------------
(* Specifications: MatchAll, and each component run on its own *)

CodecIdle ==
    /\ cpc = "idle"
    /\ plain = [Times |-> <<>>, Codes |-> <<>>]
    /\ inflated = <<>>
    /\ damage = {}
    /\ decoded = NoDecode

ScoreIdle ==
    /\ spc = "idle"
    /\ qfp = EmptyFp
    /\ cfp = EmptyFp
    /\ timeDiffs = <<>>
    /\ conf = 0

MatchIdle ==
    /\ mpc = "idle"
    /\ mfp = EmptyFp
    /\ dbOut = NoDb
    /\ mret = NoRet

BatchIdle ==
    /\ bpc = "idle"
    /\ codegenList = <<>>
    /\ allMatches = <<>>
    /\ wg = 0
    /\ tpc = <<>>
    /\ tfp = <<>>
    /\ tdb = <<>>
    /\ returned = <<>>

Builds == {32, 64}

Init == intBits \in Builds /\ BatchInit /\ CodecIdle /\ ScoreIdle /\ MatchIdle
Spec == Init /\ [][Next]_vars

InitCodec == intBits \in Builds /\ CodecInit /\ ScoreIdle /\ MatchIdle /\ BatchIdle
SpecCodec == InitCodec /\ [][NextCodec]_vars

InitScore == intBits \in Builds /\ ScoreInit /\ CodecIdle /\ MatchIdle /\ BatchIdle
SpecScore == InitScore /\ [][NextScore]_vars

InitMatch == intBits \in Builds /\ MatchInit /\ CodecIdle /\ ScoreIdle /\ BatchIdle
SpecMatch == InitMatch /\ [][NextMatch]_vars

-----------------------------------------------------------------------------
(* Properties *)

\* what slot i must hold once MatchAll has returned: one error result when
\* NewFingerprint or the store failed for element i, else a list Match can
\* produce for element i and the store's answer to it
SlotAsOwed(i, slot) ==
    LET nf == NewFingerprint(codegenList[i])
    IN IF nf.status = "err" THEN slot = newMatchGroupError("decode")
       ELSE IF tdb[i].err THEN slot = newMatchGroupError("store")
       ELSE slot \in {r.matches : r \in Match(nf.fp, tdb[i], intBits)}

C2_RoundTrip ==
    (cpc = "decoded" /\ damage = {} /\ Len(plain.Times) > 0) =>
        /\ decoded.status = "ok"
        /\ decoded.codes = plain.Codes
        /\ decoded.times = plain.Times

C2_Witness ==
    /\ cpc = "decoded"
    /\ damage = {}
    /\ Len(plain.Times) >= 2
    /\ plain.Times # plain.Codes
    /\ plain.Times[1] # plain.Times[2]
    /\ decoded.codes = plain.Codes

\* the string is malformed: its length is no multiple of 5, or one of its
\* whole 5-character groups is no hexadecimal number
Malformed(text) ==
    \/ Len(text) % 5 # 0
    \/ \E i \in 0..(Len(text) \div 5 - 1) : ~ParseUint(HexGroup(text, i)).ok

\* C3: decode returns an error, and no sequences, whenever the inflated
\* string has a length that is no multiple of 5 or holds a 5-character group
\* that is not valid hexadecimal.
C3_MalformedIsError ==
    (cpc = "decoded" /\ Malformed(inflated)) => decoded.status = "err"

\* C4: every fingerprint the codec returns without error has as many codes
\* as times, and so has the clamped copy NewClamped makes of it.
C4_EqualLengths ==
    (cpc = "decoded" /\ decoded.status = "ok") =>
        /\ Len(decoded.codes) = Len(decoded.times)
        /\ Len(decoded.times) > 0 =>
              LET c == NewClamped(Fp(decoded.codes, decoded.times, 0, 0, FALSE))
              IN Len(c.Codes) = Len(c.Times)

\* a string with trailing characters decoded without error into two pairs,
\* of which clamping keeps one
C4_Witness ==
    /\ cpc = "decoded"
    /\ decoded.status = "ok"
    /\ "tail" \in damage
    /\ Len(decoded.codes) = 2
    /\ Len(NewClamped(Fp(decoded.codes, decoded.times, 0, 0, FALSE)).Times) = 1

SelfScored == spc = "scored" /\ cfp = qfp /\ Len(qfp.Codes) > 0

DistinctCodes(fp) ==
    \A i, j \in 1..Len(fp.Codes) : i # j => fp.Codes[i] # fp.Codes[j]

SharedPairs(fp, matchFp) ==
    {h \in (1..Len(fp.Codes)) \X (1..Min(Len(matchFp.Codes), Len(fp.Codes))) :
        fp.Codes[h[1]] = matchFp.Codes[h[2]]}

AbsDiff(a, b) == IF a >= b THEN a - b ELSE b - a

SlopDown(time) == time - (time % histogramMatchSlop)

\* the bucket of a pair: the absolute difference of the times rounded down
\* to a multiple of slop
AbsBucket(fp, matchFp, h) ==
    Limbs(AbsDiff(SlopDown(fp.Times[h[1]]), SlopDown(matchFp.Times[h[2]])))

\* C9: the bucket incremented for a query pair and a candidate pair sharing
\* a code is the absolute difference of their discretized times, whichever
\* of the two is the earlier.
C9_BucketIsAbsoluteDifference ==
    spc = "scored" =>
        /\ DOMAIN timeDiffs = {AbsBucket(qfp, cfp, h) : h \in SharedPairs(qfp, cfp)}
        /\ \A k \in DOMAIN timeDiffs :
              timeDiffs[k] = Cardinality({h \in SharedPairs(qfp, cfp) :
                                             AbsBucket(qfp, cfp, h) = k})

\* the least confidence the claim's tier table lets through, by bitrate
TierMin(bitrate) ==
    IF bitrate = 0 \/ bitrate >= 256 THEN 70 * Unit
    ELSE IF bitrate >= 128 THEN 55 * Unit
    ELSE 35 * Unit

\* the confidence the scorer gives row k of the store's answer
RowScore(k) ==
    calculateConfidence(mret.used, dbOut.rows[k], histogramMatchSlop, intBits)

\* C6: every result Match returns has a confidence between the minimum of
\* the query's tier (70 for bitrate 0 or >= 256, 55 for 128..255, 35 below)
\* and 100; a row scored below that minimum is not in the list; no rows from
\* the store give an empty list and no error.
C6_ConfidenceWithinTier ==
    (mpc = "returned" /\ mret.status = "ok") =>
        LET passing == {k \in 1..Len(dbOut.rows) :
                           F32Ge(RowScore(k), TierMin(mfp.Bitrate))}
        IN /\ \A i \in 1..Len(mret.matches) :
                 /\ mret.matches[i].Confidence >= TierMin(mfp.Bitrate)
                 /\ mret.matches[i].Confidence <= 100 * Unit
                 /\ \E k \in passing : dbOut.rows[k].TrackID = mret.matches[i].TrackID
           /\ Len(mret.matches) = Cardinality(passing)
           /\ dbOut.rows = <<>> => mret.matches = <<>>

\* two rows, one of them scored below the tier's minimum and left out, the
\* other scored above 100 and capped
C6_Witness ==
    /\ mpc = "returned"
    /\ mret.status = "ok"
    /\ Len(dbOut.rows) = 2
    /\ Len(mret.matches) = 1
    /\ mret.ranked[1].Confidence > 100 * Unit
    /\ mret.matches[1].Confidence = 100 * Unit

\* C7: of the results Match returns, sorted by confidence descending, a
\* single result is flagged best; of two or more the first is flagged best
\* exactly when top - second >= 0.25 * top (on the confidences as scored);
\* no other result is ever flagged.
C7_BestMatchRule ==
    (mpc = "returned" /\ mret.status = "ok") =>
        LET m == mret.matches
            r == mret.ranked
        IN /\ Len(m) = Len(r)
           /\ \A i \in 1..(Len(r) - 1) : r[i].Confidence >= r[i + 1].Confidence
           /\ \A i \in 1..Len(m) : m[i].Best = r[i].Best /\ m[i].TrackID = r[i].TrackID
           /\ Len(m) = 1 => m[1].Best
           /\ Len(m) >= 2 =>
                 (m[1].Best <=> 4 * (r[1].Confidence - r[2].Confidence) >= r[1].Confidence)
           /\ \A i \in 2..Len(m) : ~m[i].Best

\* two results whose margin is exactly a quarter of the top confidence
C7_Witness ==
    /\ mpc = "returned"
    /\ mret.status = "ok"
    /\ Len(mret.matches) = 2
    /\ mret.matches[1].Best
    /\ 4 * (mret.ranked[1].Confidence - mret.ranked[2].Confidence)
          = mret.ranked[1].Confidence

\* the longest prefix of times none of which exceeds the first time plus
\* three sixty-second offsets
WindowPrefixLen(times) ==
    LET fits == {n \in 0..Len(times) : \A i \in 1..n : times[i] <= times[1] + 3 * 2586}
    IN CHOOSE n \in fits : \A o \in fits : o <= n

C10_ZeroCodesHandled ==
    (mpc # "build" /\ Len(mfp.Codes) = 0) =>
        /\ mpc = "returned"
        /\ \A c \in StoreFps :
              calculateConfidence(mfp, c, histogramMatchSlop, intBits) = 0

=============================================================================
